---- MODULE Spec2Model ----
(***************************************************************************)
(* Model of the two notebooks of the repository.                           *)
(*                                                                         *)
(* Spec        : doc/source/notebooks/advanced/monitoring.ipynb run cell   *)
(*               by cell (global step, tasks, monitor, restore, the Adam   *)
(*               stage, the ScipyOptimizer stage), the kernel being        *)
(*               restarted with the checkpoint directory kept on disk.     *)
(* SpecStages  : the ScipyOptimizer cell of the same notebook used for an  *)
(*               optimisation in several stages, the Monitor's optional    *)
(*               arguments (optimiser, context) and its task list being    *)
(*               the caller's choice.                                      *)
(* SpecTips    : sections 5 and 6 of the "Tips & Tricks" notebook (the     *)
(*               optimization tensors of a model, stale values of a        *)
(*               parameter), their cells run in any order.                 *)
(* SpecData    : section 2 of the same notebook (a model reused on         *)
(*               different data).                                          *)
(* SpecGraph   : section 1 of the same notebook (GPflow objects created    *)
(*               in the default graph, in a reset one, in a new one).      *)
(*                                                                         *)
(* Values of trained variables are abstracted to the number of updates     *)
(* that produced them, so that two values are equal iff no update lies     *)
(* between them.                                                           *)
(***************************************************************************)
EXTENDS Integers, Sequences, FiniteSets, TLC

VARIABLES
    pc,          \* the cell / statement the notebook is at
    run,         \* how many times the notebook has been started
    variables,   \* tf variables that exist in the graph
    session,     \* value of every existing variable in the session
    saverVars,   \* variable list of the CheckpointTask's tf.train.Saver
    checkpoint,  \* latest checkpoint in ./monitor-saves (<<>> if none)
    writers,     \* event location -> number of open file writers on it
    events,      \* location -> names of the tasks that wrote events there
    error,       \* the error raised by the last statement, "" if none
    mon,         \* the Monitor in use: tasks, global_step, optimiser
    ctx,         \* the MonitorContext of the Monitor in use
    callerCtx,   \* the MonitorContext instance held by the caller
    scipyCopy,   \* ScipyOptimizer's own copy of the trained variables
    ran,         \* task name -> iterations of this stage's loop it ran at
    exitRuns,    \* task name -> number of runs at the end of this stage
    report,      \* what the print task printed last
    seen,        \* trained value read by the last variable-reading task
    tfSteps,     \* optimisation steps the TensorFlow optimiser has performed
    stage,       \* ScipyOptimizer stages started so far in this run
    optIter,     \* iterations done by the optimiser's running minimize
    timings,     \* task name -> time the task has spent running, in runs
    lastRun,     \* names of the tasks the last callback ran, in order
    elapsed,     \* time the monitors have spent running tasks, in runs
    summary,     \* the timing summary printed last (<<>> if none)
    summaryCount,\* timing summaries printed in this run of the notebook
    \* "Tips & Tricks" notebook, section 6
    sessValue,   \* parameter -> its value in the session
    cache,       \* parameter -> its cached value
    anchored,    \* model.anchor(session) has been called
    result,      \* what the last cell evaluated to
    optSets,     \* sets of optimization tensors in the model's graph
    minimized,   \* calls of optimizer.minimize(model) made
    \* "Tips & Tricks" notebook, section 2
    X,           \* the data the model's dataholder X holds
    Y,           \* the data the model's dataholder Y holds
    calls,       \* the latest calls on the model, oldest first
    fedValue,    \* data -> what compute_log_likelihood fed with it returned
    assigned,    \* the data last assigned to the dataholders, "" if none
    \* "Tips & Tricks" notebook, section 1
    graphs,      \* the default graphs, the current one last
    created,     \* GPflow objects created so far
    kernel,      \* the object the Python variable kernel refers to, 0 if none
    stmt         \* the statement of section 1 executed last

timeVars == <<timings, lastRun, elapsed, summary, summaryCount>>

monVars == <<pc, run, variables, session, saverVars, checkpoint, writers,
             events, error, mon, ctx, callerCtx, scipyCopy, ran, exitRuns,
             report, seen, tfSteps, stage, optIter, timeVars>>

paramVars == <<sessValue, cache, anchored, result, optSets, minimized>>

dataVars == <<X, Y, calls, fedValue, assigned>>

graphVars == <<graphs, created, kernel, stmt>>

tipsVars == <<paramVars, dataVars, graphVars>>

vars == <<monVars, tipsVars>>

----------------------------------------------------------------------------
(* Bounds of the model *)

MaxRuns == 2          \* notebook executions (kernel restarts) explored
MaxScipyIters == 12   \* iterations ScipyOptimizer may take before converging
MaxStages == 2        \* ScipyOptimizer stages explored in SpecStages
MaxObjects == 4       \* GPflow objects created in section 1

MaxDepth == 2         \* default graphs in use at once: the outer one and the
                      \* one of a "with tf.Graph().as_default()" block

MaxMinimize == 2      \* calls of optimizer.minimize(model)

MaxCalls == 3         \* calls on the model of section 2 kept in the log

MaxSteps == 8         \* runs of the optimizer tensor explored in SpecTips

(* Numbers written in the notebook *)

AdamMaxIter == 450
ScipyMaxIter == 250
Period10 == 10
Period100 == 100

MinimizeMaxIter == 2  \* optimizer.minimize(model, maxiter=2)

----------------------------------------------------------------------------
(* The tasks of the notebook.  period = 0 stands for "no running           *)
(* condition": the task's default condition holds at every iteration.      *)
(* reads tells whether the task accesses the model's variables, writer     *)
(* whether it writes events through the shared file writer.                *)

\* print task built without with_condition(PeriodicIterationCondition(10))
print_task_NoCondition ==
    [name |-> "print", period |-> 0, exit |-> TRUE,
     reads |-> FALSE, writer |-> FALSE]

\* print task built without with_exit_condition(True)
print_task_NoExit ==
    [name |-> "print", period |-> Period10, exit |-> FALSE,
     reads |-> FALSE, writer |-> FALSE]

print_task ==
    [name |-> "print", period |-> Period10, exit |-> TRUE,
     reads |-> FALSE, writer |-> FALSE]

\* the sleep task given an exit condition
sleep_task_WithExit ==
    [name |-> "sleep", period |-> 0, exit |-> TRUE, reads |-> FALSE,
     writer |-> FALSE]

sleep_task ==
    [name |-> "sleep", period |-> 0, exit |-> FALSE,
     reads |-> FALSE, writer |-> FALSE]

saver_task ==
    [name |-> "saver", period |-> Period10, exit |-> TRUE,
     reads |-> TRUE, writer |-> FALSE]

model_tboard_task ==
    [name |-> "model_tboard", period |-> Period10, exit |-> TRUE,
     reads |-> TRUE, writer |-> TRUE]

lml_tboard_task ==
    [name |-> "lml_tboard", period |-> Period100, exit |-> TRUE,
     reads |-> TRUE, writer |-> TRUE]

custom_tboard_task ==
    [name |-> "custom_tboard", period |-> Period100, exit |-> TRUE,
     reads |-> TRUE, writer |-> TRUE]

monitor_tasks ==
    <<print_task, model_tboard_task, lml_tboard_task, custom_tboard_task,
      saver_task, sleep_task>>

TaskNames == {"print", "sleep", "saver", "model_tboard", "lml_tboard",
              "custom_tboard"}

EventLocation == "./model-tensorboard"

\* the parameters of a GPR model with an RBF kernel
Lengthscales == "kern.lengthscales"

Parameters == {Lengthscales, "kern.variance", "likelihood.variance"}

\* the data sets of section 2: the two points the model is built on, the
\* hundred new points, and one more set to reuse the model on
Data == {"xy", "xy_new", "xy_other"}

\* no log likelihood
NoValue == <<>>

Range(s) == {s[i] : i \in DOMAIN s}

NoCheckpoint == <<>>

NoMonitor ==
    [tasks |-> <<>>, global_step |-> FALSE, optimiser |-> "none",
     context |-> "none", print_summary |-> FALSE]

NewContext == [iteration_no |-> 0, global_step |-> 0]

NoReport == [iteration |-> 0, opt_step |-> 0, at |-> "none"]

NoSummary == <<>>

\* the tasks not built yet, nothing run, nothing printed
TimeInit ==
    /\ timings = [t \in TaskNames |-> 0]
    /\ lastRun = <<>>
    /\ elapsed = 0
    /\ summary = NoSummary
    /\ summaryCount = 0

----------------------------------------------------------------------------
\* a graph made when made objects had been created, holding no tensor
NewGraph(made) == [born |-> made, objs |-> {}]

\* the notebook's imports done: the default graph, no GPflow object yet
GraphInit ==
    /\ graphs = <<NewGraph(0)>>
    /\ created = 0
    /\ kernel = 0
    /\ stmt = "import"

\* the model of section 2 built on x, y
DataInit ==
    /\ X = "xy"
    /\ Y = "xy"
    /\ calls = <<>>
    /\ fedValue = [d \in Data |-> NoValue]
    /\ assigned = ""

\* the model of section 6 built, its optimizer tensor made
TipsInit ==
    /\ DataInit
    /\ GraphInit
    /\ sessValue = [q \in Parameters |-> 0]
    /\ cache = [q \in Parameters |-> 0]
    /\ anchored = FALSE
    /\ optSets = 1
    /\ minimized = 0
    /\ result = [op |-> "none", value |-> 0]

Init ==
    /\ TipsInit
    /\ pc = "global_step"
    /\ run = 1
    /\ variables = {"params"}
    /\ session = [v \in {"params"} |-> 0]
    /\ saverVars = {}
    /\ checkpoint = NoCheckpoint
    /\ writers = [l \in {EventLocation} |-> 0]
    /\ events = [l \in {EventLocation} |-> {}]
    /\ error = ""
    /\ mon = NoMonitor
    /\ ctx = NewContext
    /\ callerCtx = NewContext
    /\ scipyCopy = 0
    /\ ran = [t \in TaskNames |-> {}]
    /\ exitRuns = [t \in TaskNames |-> 0]
    /\ report = NoReport
    /\ seen = 0
    /\ tfSteps = 0
    /\ stage = 0
    /\ optIter = 0
    /\ TimeInit

----------------------------------------------------------------------------
(* gpflow.training.monitor: conditions, task execution, the callback.      *)

\* PeriodicIterationCondition(n): true at every n-th iteration of the loop
Condition(task, c) ==
    \/ task.period = 0
    \/ c.iteration_no % task.period = 0

\* the tasks of the monitor that run at an iteration of the loop
LoopTasks(tasks, c) == {t \in Range(tasks) : Condition(t, c)}

\* the tasks of the monitor that run at the end of optimisation
ExitTasks(tasks) == {t \in Range(tasks) : t.exit}

\* the optimisation step of the context: global_step when the monitor has
\* one, the iteration count otherwise
OptStep(m, sess, iteration_no) ==
    IF m.global_step THEN sess["global_step"] ELSE iteration_no

\* a monitor that leaves the original variables alone
UpdateOptimiser_Never(m, sess, copy) == sess

\* update_optimiser: on a task's access to the variables the monitor writes
\* the optimiser's copy into the original variables, if it was given the
\* optimiser
UpdateOptimiser(m, sess, copy) ==
    IF m.optimiser = "scipy"
    THEN [sess EXCEPT !["params"] = copy]
    ELSE sess

\* a Saver that collects the variables when it saves
SaveCheckpoint_AllVariables(sess, savedVars) == sess

\* CheckpointTask.run: the Saver writes the variables of its list
SaveCheckpoint(sess, savedVars) == [v \in savedVars |-> sess[v]]

Names(tasks) == {t.name : t \in tasks}

\* the names of the tasks of the list that are in fire, in the list's order
InOrder(tasks, fire) ==
    LET chosen == SelectSeq(tasks, LAMBDA t : t \in fire)
    IN  [i \in DOMAIN chosen |-> chosen[i].name]

\* The monitor runs the tasks `fire` one after another with context c.
RunTasks(fire, c, at) ==
    LET reading == \E t \in fire : t.reads
        sess1 == IF reading
                 THEN UpdateOptimiser(mon, session, scipyCopy)
                 ELSE session
        writing == {t \in fire : t.writer}
    IN  /\ session' = sess1
        /\ seen' = IF reading THEN sess1["params"] ELSE seen
        /\ checkpoint' = IF "saver" \in Names(fire)
                         THEN SaveCheckpoint(sess1, saverVars)
                         ELSE checkpoint
        /\ IF writing = {}
           THEN /\ events' = events
                /\ error' = ""
           ELSE IF writers[EventLocation] > 0
           THEN /\ events' = [events EXCEPT ![EventLocation] =
                                  @ \cup Names(writing)]
                /\ error' = ""
           ELSE /\ events' = events
                /\ error' = "writer closed"
        /\ report' = IF "print" \in Names(fire)
                     THEN [iteration |-> c.iteration_no,
                           opt_step |-> c.global_step, at |-> at]
                     ELSE report
        /\ IF at = "loop"
           THEN /\ ran' = [t \in TaskNames |->
                              IF t \in Names(fire)
                              THEN ran[t] \cup {c.iteration_no} ELSE ran[t]]
                /\ exitRuns' = exitRuns
           ELSE /\ exitRuns' = [t \in TaskNames |->
                              IF t \in Names(fire)
                              THEN exitRuns[t] + 1 ELSE exitRuns[t]]
                /\ ran' = ran
        \* every run takes one unit of time, and the next task starts when
        \* the one before it has returned
        /\ lastRun' = InOrder(mon.tasks, fire)
        /\ timings' = [t \in TaskNames |->
                          IF t \in Names(fire)
                          THEN timings[t] + 1 ELSE timings[t]]
        /\ elapsed' = elapsed + Len(InOrder(mon.tasks, fire))

\* Monitor.__call__: the optimiser's step callback
MonitorCall ==
    /\ pc \in {"adam_callback", "scipy_callback"}
    /\ LET n == ctx.iteration_no + 1
           c == [iteration_no |-> n, global_step |-> OptStep(mon, session, n)]
       IN  /\ ctx' = c
           /\ callerCtx' = IF mon.context = "none" THEN callerCtx ELSE c
           /\ RunTasks(LoopTasks(mon.tasks, c), c, "loop")
    /\ pc' = IF pc = "adam_callback" THEN "adam_step" ELSE "scipy_step"
    /\ UNCHANGED <<summary, summaryCount>>
    /\ UNCHANGED tipsVars
    /\ UNCHANGED <<run, variables, saverVars, writers, mon, scipyCopy,
                   tfSteps, stage, optIter>>

\* Monitor.__exit__: stop_monitoring runs the tasks with an exit condition
MonitorExit ==
    /\ pc \in {"adam_exit", "scipy_exit"}
    /\ LET c == [ctx EXCEPT !.global_step =
                     OptStep(mon, session, ctx.iteration_no)]
       IN  /\ ctx' = c
           /\ callerCtx' = IF mon.context = "none" THEN callerCtx ELSE c
           /\ RunTasks(ExitTasks(mon.tasks), c, "exit")
    /\ IF mon.print_summary
       THEN /\ summary' = [t \in Names(Range(mon.tasks)) |-> timings'[t]]
            /\ summaryCount' = summaryCount + 1
       ELSE UNCHANGED <<summary, summaryCount>>
    /\ pc' = IF pc = "adam_exit" THEN "close_writer" ELSE "scipy_enter"
    /\ UNCHANGED tipsVars
    /\ UNCHANGED <<run, variables, saverVars, writers, mon, scipyCopy,
                   tfSteps, stage, optIter>>

----------------------------------------------------------------------------
(* The cells of monitoring.ipynb *)

\* mon.create_global_step(session)
CreateGlobalStep ==
    /\ pc = "global_step"
    /\ variables' = variables \cup {"global_step"}
    /\ session' = [v \in variables \cup {"global_step"} |->
                      IF v = "global_step" THEN 0 ELSE session[v]]
    /\ pc' = "tasks"
    /\ error' = ""
    /\ UNCHANGED tipsVars
    /\ UNCHANGED timeVars
    /\ UNCHANGED <<run, saverVars, checkpoint, writers, events, mon, ctx,
                   callerCtx, scipyCopy, ran, exitRuns, report, seen,
                   tfSteps, stage, optIter>>

\* a writer that opens whatever the location holds
LogdirWriter_NoLocationCheck(open, location) ==
    [writers |-> [open EXCEPT ![location] = @ + 1], error |-> ""]

\* mon.LogdirWriter(location): a location takes one open writer
LogdirWriter(open, location) ==
    IF open[location] > 0
    THEN [writers |-> open, error |-> "location in use"]
    ELSE [writers |-> [open EXCEPT ![location] = @ + 1], error |-> ""]

\* The cell that builds the tasks: CheckpointTask makes its Saver from the
\* variables that exist now, LogdirWriter opens the event location.  The
\* cell can be executed again while the notebook is at the next cell.
CreateTasks ==
    /\ \/ pc = "tasks"
       \/ pc = "monitor" /\ error = ""
    /\ saverVars' = variables
    /\ LET w == LogdirWriter(writers, EventLocation)
       IN  /\ writers' = w.writers
           /\ error' = w.error
    /\ pc' = "monitor"
    /\ timings' = [t \in TaskNames |-> 0]
    /\ UNCHANGED <<lastRun, elapsed, summary, summaryCount>>
    /\ UNCHANGED tipsVars
    /\ UNCHANGED <<run, variables, session, checkpoint, events, mon, ctx,
                   callerCtx, scipyCopy, ran, exitRuns, report, seen,
                   tfSteps, stage, optIter>>

\* the Monitor built without global_step
AdamMonitor_NoGlobalStep ==
    [tasks |-> monitor_tasks, global_step |-> FALSE, optimiser |-> "none",
     context |-> "none", print_summary |-> TRUE]

\* mon.Monitor(monitor_tasks, session, global_step)
AdamMonitor ==
    [tasks |-> monitor_tasks, global_step |-> TRUE, optimiser |-> "none",
     context |-> "none", print_summary |-> TRUE]

CreateMonitor ==
    /\ pc = "monitor"
    /\ mon' = AdamMonitor
    /\ ctx' = NewContext
    /\ pc' = "restore"
    /\ error' = ""
    /\ UNCHANGED tipsVars
    /\ UNCHANGED timeVars
    /\ UNCHANGED <<run, variables, session, saverVars, checkpoint, writers,
                   events, callerCtx, scipyCopy, ran, exitRuns, report, seen,
                   tfSteps, stage, optIter>>

\* saver.restore: every variable of the session found in the checkpoint
\* takes the value saved there
Restore(sess, ckpt) ==
    [v \in DOMAIN sess |-> IF v \in DOMAIN ckpt THEN ckpt[v] ELSE sess[v]]

\* the restore cell left out
RestoreSession_Skipped ==
    /\ pc = "restore"
    /\ pc' = "adam_enter"
    /\ error' = ""
    /\ UNCHANGED tipsVars
    /\ UNCHANGED timeVars
    /\ UNCHANGED <<run, variables, session, saverVars, checkpoint, writers,
                   events, mon, ctx, callerCtx, scipyCopy, ran, exitRuns,
                   report, seen, tfSteps, stage, optIter>>

\* if os.path.isdir('./monitor-saves'): mon.restore_session(...)
RestoreSession ==
    /\ pc = "restore"
    /\ session' = IF checkpoint # NoCheckpoint
                  THEN Restore(session, checkpoint)
                  ELSE session
    /\ pc' = "adam_enter"
    /\ error' = ""
    /\ UNCHANGED tipsVars
    /\ UNCHANGED timeVars
    /\ UNCHANGED <<run, variables, saverVars, checkpoint, writers, events,
                   mon, ctx, callerCtx, scipyCopy, ran, exitRuns, report,
                   seen, tfSteps, stage, optIter>>

\* with mon.Monitor(monitor_tasks, session, global_step, ...) as monitor
AdamEnter ==
    /\ pc = "adam_enter"
    /\ mon' = AdamMonitor
    /\ ctx' = NewContext
    /\ ran' = [t \in TaskNames |-> {}]
    /\ exitRuns' = [t \in TaskNames |-> 0]
    /\ pc' = "adam_minimize"
    /\ error' = ""
    /\ UNCHANGED tipsVars
    /\ UNCHANGED timeVars
    /\ UNCHANGED <<run, variables, session, saverVars, checkpoint, writers,
                   events, callerCtx, scipyCopy, report, seen, tfSteps,
                   stage, optIter>>

\* optimiser.minimize(m, ..., global_step=global_step) builds the
\* optimiser's tensors: Adam's own variables appear in the graph
AdamMinimize ==
    /\ pc = "adam_minimize"
    /\ variables' = variables \cup {"adam"}
    /\ session' = [v \in variables \cup {"adam"} |->
                      IF v = "adam" THEN 0 ELSE session[v]]
    /\ optIter' = 0
    /\ pc' = "adam_step"
    /\ error' = ""
    /\ UNCHANGED tipsVars
    /\ UNCHANGED timeVars
    /\ UNCHANGED <<run, saverVars, checkpoint, writers, events, mon, ctx,
                   callerCtx, scipyCopy, ran, exitRuns, report, seen,
                   tfSteps, stage>>

\* one iteration of the minimize loop, before its step callback
AdamStep ==
    /\ pc = "adam_step"
    /\ optIter < AdamMaxIter
    /\ session' = [session EXCEPT !["params"] = @ + 1,
                                  !["adam"] = @ + 1,
                                  !["global_step"] = @ + 1]
    /\ optIter' = optIter + 1
    /\ tfSteps' = tfSteps + 1
    /\ pc' = "adam_callback"
    /\ error' = ""
    /\ UNCHANGED tipsVars
    /\ UNCHANGED timeVars
    /\ UNCHANGED <<run, variables, saverVars, checkpoint, writers, events,
                   mon, ctx, callerCtx, scipyCopy, ran, exitRuns, report,
                   seen, stage>>

\* minimize returns after maxiter iterations
AdamFinish ==
    /\ pc = "adam_step"
    /\ optIter = AdamMaxIter
    /\ pc' = "adam_exit"
    /\ error' = ""
    /\ UNCHANGED tipsVars
    /\ UNCHANGED timeVars
    /\ UNCHANGED <<run, variables, session, saverVars, checkpoint, writers,
                   events, mon, ctx, callerCtx, scipyCopy, ran, exitRuns,
                   report, seen, tfSteps, stage, optIter>>

\* file_writer.close()
CloseWriter ==
    /\ pc = "close_writer"
    /\ writers[EventLocation] > 0
    /\ writers' = [writers EXCEPT ![EventLocation] = @ - 1]
    /\ pc' = "scipy_enter"
    /\ error' = ""
    /\ UNCHANGED tipsVars
    /\ UNCHANGED timeVars
    /\ UNCHANGED <<run, variables, session, saverVars, checkpoint, events,
                   mon, ctx, callerCtx, scipyCopy, ran, exitRuns, report,
                   seen, tfSteps, stage, optIter>>

----------------------------------------------------------------------------
(* The ScipyOptimizer cell.  A stage's configuration is the Monitor's      *)
(* arguments: its tasks, optimiser = the optimiser or nothing, context =   *)
(* nothing ("none"), a MonitorContext made in the cell ("new") or the one  *)
(* instance the caller made before the stages ("shared").                  *)

NotebookCfg ==
    [tasks |-> <<print_task>>, optimiser |-> "scipy", context |-> "new",
     print_summary |-> TRUE]

StageCfgs ==
    [tasks : {<<print_task>>, <<print_task, saver_task>>},
     optimiser : {"scipy", "none"},
     context : {"none", "shared"},
     print_summary : {TRUE}]

\* the Monitor built without context=context
ScipyEnter_OwnContext(cfg) ==
    /\ pc = "scipy_enter"
    /\ mon' = [tasks |-> cfg.tasks, global_step |-> FALSE,
               optimiser |-> cfg.optimiser, context |-> cfg.context,
               print_summary |-> cfg.print_summary]
    /\ ctx' = NewContext
    /\ callerCtx' = IF cfg.context = "new" THEN NewContext ELSE callerCtx
    /\ scipyCopy' = session["params"]
    /\ optIter' = 0
    /\ ran' = [t \in TaskNames |-> {}]
    /\ exitRuns' = [t \in TaskNames |-> 0]
    /\ stage' = stage + 1
    /\ pc' = "scipy_step"
    /\ error' = ""
    /\ UNCHANGED tipsVars
    /\ UNCHANGED timeVars
    /\ UNCHANGED <<run, variables, session, saverVars, checkpoint, writers,
                   events, report, seen, tfSteps>>

\* with mon.Monitor(tasks, session, optimiser=.., context=..) as monitor:
\*     optimiser.minimize(m, step_callback=monitor, maxiter=250)
\* ScipyOptimizer starts from its own copy of the trained variables.
ScipyEnter(cfg) ==
    /\ pc = "scipy_enter"
    /\ mon' = [tasks |-> cfg.tasks, global_step |-> FALSE,
               optimiser |-> cfg.optimiser, context |-> cfg.context,
               print_summary |-> cfg.print_summary]
    /\ ctx' = IF cfg.context = "shared" THEN callerCtx ELSE NewContext
    /\ callerCtx' = IF cfg.context = "new" THEN NewContext ELSE callerCtx
    /\ scipyCopy' = session["params"]
    /\ optIter' = 0
    /\ ran' = [t \in TaskNames |-> {}]
    /\ exitRuns' = [t \in TaskNames |-> 0]
    /\ stage' = stage + 1
    /\ pc' = "scipy_step"
    /\ error' = ""
    /\ UNCHANGED tipsVars
    /\ UNCHANGED timeVars
    /\ UNCHANGED <<run, variables, session, saverVars, checkpoint, writers,
                   events, report, seen, tfSteps>>

\* the cell as the notebook has it, run once
ScipyCell ==
    /\ stage = 0
    /\ ScipyEnter(NotebookCfg)

\* one stage of an optimisation in several stages
ScipyStage ==
    /\ stage < MaxStages
    /\ \E cfg \in StageCfgs : ScipyEnter(cfg)

\* an optimiser that trains the original variables in place
ScipyStep_InPlace ==
    /\ pc = "scipy_step"
    /\ optIter < ScipyMaxIter
    /\ optIter < MaxScipyIters
    /\ scipyCopy' = scipyCopy + 1
    /\ session' = [session EXCEPT !["params"] = scipyCopy + 1]
    /\ optIter' = optIter + 1
    /\ pc' = "scipy_callback"
    /\ error' = ""
    /\ UNCHANGED tipsVars
    /\ UNCHANGED timeVars
    /\ UNCHANGED <<run, variables, saverVars, checkpoint, writers,
                   events, mon, ctx, callerCtx, ran, exitRuns, report, seen,
                   tfSteps, stage>>

\* one iteration of ScipyOptimizer: it moves its own copy only
ScipyStep ==
    /\ pc = "scipy_step"
    /\ optIter < ScipyMaxIter
    /\ optIter < MaxScipyIters
    /\ scipyCopy' = scipyCopy + 1
    /\ optIter' = optIter + 1
    /\ pc' = "scipy_callback"
    /\ error' = ""
    /\ UNCHANGED tipsVars
    /\ UNCHANGED timeVars
    /\ UNCHANGED <<run, variables, session, saverVars, checkpoint, writers,
                   events, mon, ctx, callerCtx, ran, exitRuns, report, seen,
                   tfSteps, stage>>

\* ScipyOptimizer converges (or reaches maxiter): minimize writes its copy
\* into the original variables and returns
ScipyFinish ==
    /\ pc = "scipy_step"
    /\ session' = [session EXCEPT !["params"] = scipyCopy]
    /\ pc' = "scipy_exit"
    /\ error' = ""
    /\ UNCHANGED tipsVars
    /\ UNCHANGED timeVars
    /\ UNCHANGED <<run, variables, saverVars, checkpoint, writers, events,
                   mon, ctx, callerCtx, scipyCopy, ran, exitRuns, report,
                   seen, tfSteps, stage, optIter>>

\* The notebook is run again in a new kernel: graph, session and Python
\* objects are gone, the files on disk stay.
Restart ==
    /\ pc = "scipy_enter"
    /\ stage = 1
    /\ run < MaxRuns
    /\ run' = run + 1
    /\ pc' = "global_step"
    /\ variables' = {"params"}
    /\ session' = [v \in {"params"} |-> 0]
    /\ saverVars' = {}
    /\ writers' = [l \in {EventLocation} |-> 0]
    /\ error' = ""
    /\ mon' = NoMonitor
    /\ ctx' = NewContext
    /\ callerCtx' = NewContext
    /\ scipyCopy' = 0
    /\ ran' = [t \in TaskNames |-> {}]
    /\ exitRuns' = [t \in TaskNames |-> 0]
    /\ report' = NoReport
    /\ seen' = 0
    /\ stage' = 0
    /\ optIter' = 0
    /\ timings' = [t \in TaskNames |-> 0]
    /\ lastRun' = <<>>
    /\ elapsed' = 0
    /\ summary' = NoSummary
    /\ summaryCount' = 0
    /\ UNCHANGED tipsVars
    /\ UNCHANGED <<checkpoint, events, tfSteps>>

----------------------------------------------------------------------------
Next ==
    \/ CreateGlobalStep
    \/ CreateTasks
    \/ CreateMonitor
    \/ RestoreSession
    \/ AdamEnter
    \/ AdamMinimize
    \/ AdamStep
    \/ AdamFinish
    \/ MonitorCall
    \/ MonitorExit
    \/ CloseWriter
    \/ ScipyCell
    \/ ScipyStep
    \/ ScipyFinish
    \/ Restart

Spec == Init /\ [][Next]_vars

\* The notebook with the Adam cell left out, at the ScipyOptimizer cell.
InitStages ==
    /\ TipsInit
    /\ pc = "scipy_enter"
    /\ run = 1
    /\ variables = {"params", "global_step"}
    /\ session = [v \in {"params", "global_step"} |-> 0]
    /\ saverVars = {"params", "global_step"}
    /\ checkpoint = NoCheckpoint
    /\ writers = [l \in {EventLocation} |-> 0]
    /\ events = [l \in {EventLocation} |-> {}]
    /\ error = ""
    /\ mon = NoMonitor
    /\ ctx = NewContext
    /\ callerCtx = NewContext
    /\ scipyCopy = 0
    /\ ran = [t \in TaskNames |-> {}]
    /\ exitRuns = [t \in TaskNames |-> 0]
    /\ report = NoReport
    /\ seen = 0
    /\ tfSteps = 0
    /\ stage = 0
    /\ optIter = 0
    /\ TimeInit

NextStages ==
    \/ ScipyStage
    \/ ScipyStep
    \/ ScipyFinish
    \/ MonitorCall
    \/ MonitorExit

SpecStages == InitStages /\ [][NextStages]_vars

----------------------------------------------------------------------------
(* "How GPflow relates to TensorFlow: Tips & Tricks", section 6: a GPR      *)
(* model with its optimizer tensor; the cells of the section run in any    *)
(* order.  A parameter's value stands for the number of optimisation       *)
(* steps that produced it.                                                 *)

\* optimizer.minimize(model) in place of session.run: it anchors the model
RunOptimizerTensor_Anchoring ==
    /\ sessValue[Lengthscales] < MaxSteps
    /\ sessValue' = [q \in Parameters |-> sessValue[q] + 1]
    /\ cache' = [q \in Parameters |-> sessValue[q] + 1]
    /\ result' = [op |-> "run", value |-> 0]
    /\ UNCHANGED anchored
    /\ UNCHANGED <<optSets, minimized>>
    /\ UNCHANGED <<dataVars, graphVars, monVars>>

\* gpflow.get_default_session().run(optimizer_tensor): one optimisation
\* step on every trainable parameter, in the session
RunOptimizerTensor ==
    /\ sessValue[Lengthscales] < MaxSteps
    /\ sessValue' = [q \in Parameters |-> sessValue[q] + 1]
    /\ result' = [op |-> "run", value |-> 0]
    /\ UNCHANGED <<cache, anchored>>
    /\ UNCHANGED <<optSets, minimized>>
    /\ UNCHANGED <<dataVars, graphVars, monVars>>

\* model.kern.lengthscales.value
GetValue ==
    /\ result' = [op |-> "value", value |-> cache[Lengthscales]]
    /\ UNCHANGED <<sessValue, cache, anchored>>
    /\ UNCHANGED <<optSets, minimized>>
    /\ UNCHANGED <<dataVars, graphVars, monVars>>

\* a read_value that answers from the cache
ReadValue_FromCache ==
    /\ result' = [op |-> "read_value", value |-> cache[Lengthscales]]
    /\ UNCHANGED <<sessValue, cache, anchored>>
    /\ UNCHANGED <<optSets, minimized>>
    /\ UNCHANGED <<dataVars, graphVars, monVars>>

\* model.kern.lengthscales.read_value(session)
ReadValue ==
    /\ result' = [op |-> "read_value", value |-> sessValue[Lengthscales]]
    /\ UNCHANGED <<sessValue, cache, anchored>>
    /\ UNCHANGED <<optSets, minimized>>
    /\ UNCHANGED <<dataVars, graphVars, monVars>>

\* anchoring the kernel's lengthscales in place of the model
Anchor_LengthscalesOnly ==
    /\ cache' = [cache EXCEPT ![Lengthscales] = sessValue[Lengthscales]]
    /\ anchored' = TRUE
    /\ result' = [op |-> "anchor", value |-> 0]
    /\ UNCHANGED sessValue
    /\ UNCHANGED <<optSets, minimized>>
    /\ UNCHANGED <<dataVars, graphVars, monVars>>

\* model.anchor(session)
Anchor ==
    /\ cache' = sessValue
    /\ anchored' = TRUE
    /\ result' = [op |-> "anchor", value |-> 0]
    /\ UNCHANGED sessValue
    /\ UNCHANGED <<optSets, minimized>>
    /\ UNCHANGED <<dataVars, graphVars, monVars>>

\* a minimize that runs the optimization tensors already in the graph
Minimize_Reusing ==
    /\ minimized < MaxMinimize
    /\ sessValue[Lengthscales] + MinimizeMaxIter <= MaxSteps
    /\ minimized' = minimized + 1
    /\ sessValue' = [q \in Parameters |-> sessValue[q] + MinimizeMaxIter]
    /\ cache' = sessValue'
    /\ anchored' = TRUE
    /\ result' = [op |-> "minimize", value |-> 0]
    /\ UNCHANGED optSets
    /\ UNCHANGED <<dataVars, graphVars, monVars>>

\* optimizer.minimize(model, maxiter=2): builds its optimization tensors,
\* runs them maxiter times and anchors the model
Minimize ==
    /\ minimized < MaxMinimize
    /\ sessValue[Lengthscales] + MinimizeMaxIter <= MaxSteps
    /\ minimized' = minimized + 1
    /\ optSets' = optSets + 1
    /\ sessValue' = [q \in Parameters |-> sessValue[q] + MinimizeMaxIter]
    /\ cache' = sessValue'
    /\ anchored' = TRUE
    /\ result' = [op |-> "minimize", value |-> 0]
    /\ UNCHANGED <<dataVars, graphVars, monVars>>

InitTips ==
    /\ TipsInit
    /\ pc = "tips"
    /\ run = 1
    /\ variables = {"params"}
    /\ session = [v \in {"params"} |-> 0]
    /\ saverVars = {}
    /\ checkpoint = NoCheckpoint
    /\ writers = [l \in {EventLocation} |-> 0]
    /\ events = [l \in {EventLocation} |-> {}]
    /\ error = ""
    /\ mon = NoMonitor
    /\ ctx = NewContext
    /\ callerCtx = NewContext
    /\ scipyCopy = 0
    /\ ran = [t \in TaskNames |-> {}]
    /\ exitRuns = [t \in TaskNames |-> 0]
    /\ report = NoReport
    /\ seen = 0
    /\ tfSteps = 0
    /\ stage = 0
    /\ optIter = 0
    /\ TimeInit

NextTips ==
    \/ RunOptimizerTensor
    \/ GetValue
    \/ ReadValue
    \/ Anchor
    \/ Minimize

SpecTips == InitTips /\ [][NextTips]_vars

----------------------------------------------------------------------------
(* "Tips & Tricks", section 2: a GPR model reused on different data.  The  *)
(* model is not trained in this section, so a log likelihood is decided by *)
(* the data it is computed on.                                             *)

\* the log likelihood of the model on inputs x of xd and targets y of yd
LogLikelihood(xd, yd) == <<xd, yd>>

\* the latest calls, the new one last
Logged(call) ==
    IF Len(calls) < MaxCalls THEN Append(calls, call)
    ELSE Append(Tail(calls), call)

\* model.compute_log_likelihood()
Compute ==
    /\ calls' = Logged([op |-> "compute", data |-> "",
                        value |-> LogLikelihood(X, Y)])
    /\ UNCHANGED <<X, Y, fedValue, assigned>>
    /\ UNCHANGED <<paramVars, graphVars, monVars>>

\* a feed that is kept in the dataholders
ComputeFed_Keeping(d) ==
    /\ calls' = Logged([op |-> "compute_fed", data |-> d,
                        value |-> LogLikelihood(d, d)])
    /\ fedValue' = [fedValue EXCEPT ![d] = LogLikelihood(d, d)]
    /\ X' = d
    /\ Y' = d
    /\ UNCHANGED assigned
    /\ UNCHANGED <<paramVars, graphVars, monVars>>

\* model.compute_log_likelihood(feed_dict={x_tensor: x_d, y_tensor: y_d})
ComputeFed(d) ==
    /\ calls' = Logged([op |-> "compute_fed", data |-> d,
                        value |-> LogLikelihood(d, d)])
    /\ fedValue' = [fedValue EXCEPT ![d] = LogLikelihood(d, d)]
    /\ UNCHANGED <<X, Y, assigned>>
    /\ UNCHANGED <<paramVars, graphVars, monVars>>

\* model.X = x_d alone
AssignData_OnlyX(d) ==
    /\ X' = d
    /\ assigned' = d
    /\ calls' = Logged([op |-> "assign", data |-> d, value |-> NoValue])
    /\ UNCHANGED <<Y, fedValue>>
    /\ UNCHANGED <<paramVars, graphVars, monVars>>

\* model.X = x_d; model.Y = y_d
AssignData(d) ==
    /\ X' = d
    /\ Y' = d
    /\ assigned' = d
    /\ calls' = Logged([op |-> "assign", data |-> d, value |-> NoValue])
    /\ UNCHANGED fedValue
    /\ UNCHANGED <<paramVars, graphVars, monVars>>

NextData ==
    \/ Compute
    \/ \E d \in Data : ComputeFed(d)
    \/ \E d \in Data : AssignData(d)

SpecData == InitTips /\ [][NextData]_vars

----------------------------------------------------------------------------
(* "Tips & Tricks", section 1: GPflow objects created in a loop.  A graph  *)
(* is the set of objects whose tensors it holds.                           *)

\* the graph that is the default one
Current == graphs[Len(graphs)]

\* the graphs with the current one replaced by g
WithCurrent(g) == [graphs EXCEPT ![Len(graphs)] = g]

\* a creation that frees the tensors of the object kernel referred to
CreateKernel_Collecting ==
    /\ created < MaxObjects
    /\ created' = created + 1
    /\ kernel' = created + 1
    /\ graphs' = WithCurrent([Current EXCEPT
                     !.objs = (@ \ {kernel}) \cup {created + 1}])
    /\ stmt' = "create"
    /\ UNCHANGED <<paramVars, dataVars, monVars>>

\* kernel = gpflow.kernels.RBF(1)
CreateKernel ==
    /\ created < MaxObjects
    /\ created' = created + 1
    /\ kernel' = created + 1
    /\ graphs' = WithCurrent([Current EXCEPT !.objs = @ \cup {created + 1}])
    /\ stmt' = "create"
    /\ UNCHANGED <<paramVars, dataVars, monVars>>

\* gpflow.reset_default_graph_and_session(), outside any graph block
ResetGraph ==
    /\ Len(graphs) = 1
    /\ graphs' = WithCurrent(NewGraph(created))
    /\ stmt' = "reset"
    /\ UNCHANGED <<created, kernel>>
    /\ UNCHANGED <<paramVars, dataVars, monVars>>

\* with tf.Graph().as_default() as graph: ...
EnterGraph ==
    /\ Len(graphs) < MaxDepth
    /\ graphs' = Append(graphs, NewGraph(created))
    /\ stmt' = "enter"
    /\ UNCHANGED <<created, kernel>>
    /\ UNCHANGED <<paramVars, dataVars, monVars>>

\* the end of the with block: the enclosing graph is the default one again
LeaveGraph ==
    /\ Len(graphs) > 1
    /\ graphs' = SubSeq(graphs, 1, Len(graphs) - 1)
    /\ stmt' = "leave"
    /\ UNCHANGED <<created, kernel>>
    /\ UNCHANGED <<paramVars, dataVars, monVars>>

NextGraph ==
    \/ CreateKernel
    \/ ResetGraph
    \/ EnterGraph
    \/ LeaveGraph

SpecGraph == InitTips /\ [][NextGraph]_vars

----------------------------------------------------------------------------
(* Properties *)

\* the multiples of n among the iterations 1..upto
Multiples(n, upto) == {n * j : j \in 1..(upto \div n)}

PeriodicTasks == {t \in Range(mon.tasks) : t.period > 0}

\* C1: a periodic task has run, in the loop of the current stage, at exactly
\* the iterations so far that are multiples of its period and at no other;
\* in the Adam stage the print task (n = 10) at 10, 20, ... and the
\* lml_tboard task (n = 100) at 100, 200, ...
C1_PeriodicRuns ==
    /\ \A t \in PeriodicTasks :
          ran[t.name] = Multiples(t.period, ctx.iteration_no)
    /\ pc \in {"adam_step", "adam_callback", "adam_exit", "close_writer"} =>
          /\ ran["print"] = {10 * j : j \in 1..(ctx.iteration_no \div 10)}
          /\ ran["lml_tboard"] =
                 {100 * j : j \in 1..(ctx.iteration_no \div 100)}

C1_Witness ==
    /\ pc = "adam_exit"
    /\ ctx.iteration_no = 450
    /\ {10, 20, 440, 450} \subseteq ran["print"]
    /\ Cardinality(ran["print"]) = 45
    /\ ran["lml_tboard"] = {100, 200, 300, 400}

\* C2: once the Monitor context is left every task with an exit condition
\* has run exactly once at exit, beside its runs in the loop, none having
\* run at exit before; after the Adam stage the print task has run in the
\* loop at iteration 450 and once more at exit, reporting iteration 450.
C2_ExitRun ==
    /\ pc \in {"close_writer", "scipy_enter"} /\ mon # NoMonitor =>
          /\ \A t \in Range(mon.tasks) :
                exitRuns[t.name] = IF t.exit THEN 1 ELSE 0
          /\ report.at = "exit"
          /\ report.iteration = ctx.iteration_no
    /\ pc \in {"adam_step", "adam_callback", "adam_exit", "scipy_step",
               "scipy_callback", "scipy_exit"} =>
          \A n \in TaskNames : exitRuns[n] = 0
    /\ pc = "close_writer" =>
          /\ 450 \in ran["print"]
          /\ exitRuns["print"] = 1
          /\ report.iteration = 450

C2_Witness ==
    /\ pc = "close_writer"
    /\ 450 \in ran["print"]
    /\ exitRuns["print"] = 1
    /\ report = [iteration |-> 450, opt_step |-> 450, at |-> "exit"]

\* C3: after every callback of the Adam stage the optimisation step of the
\* monitor is the number of steps the optimiser has performed so far, and
\* in the run that started from step 0 it is the iteration number; what the
\* print task reports is that step.
C3_GlobalStep ==
    /\ pc \in {"adam_step", "adam_exit"} /\ optIter > 0 =>
          /\ ctx.global_step = tfSteps
          /\ run = 1 => ctx.global_step = ctx.iteration_no
          /\ ctx.iteration_no \in ran["print"] =>
                /\ report.opt_step = tfSteps
                /\ report.iteration = ctx.iteration_no
    /\ pc = "close_writer" => report.opt_step = tfSteps

C3_Witness ==
    /\ pc = "adam_step"
    /\ run = 1
    /\ optIter = 450
    /\ ctx.global_step = 450
    /\ report = [iteration |-> 450, opt_step |-> 450, at |-> "loop"]

\* C4: after restore_session global_step and the model's parameters hold
\* the values they had when the latest checkpoint was written (the Adam
\* steps performed until then; the later ScipyOptimizer stage was not
\* saved), and the continued optimisation counts its steps from there.
C4_Restore ==
    /\ pc = "adam_enter" /\ checkpoint # NoCheckpoint =>
          \A v \in {"global_step", "params"} :
              /\ v \in DOMAIN checkpoint
              /\ session[v] = checkpoint[v]
              /\ session[v] = tfSteps
    /\ run > 1 /\ pc \in {"adam_step", "adam_exit"} /\ optIter > 0 =>
          ctx.global_step = 450 * (run - 1) + ctx.iteration_no

C4_Witness ==
    /\ pc = "adam_step"
    /\ run = 2
    /\ optIter = 1
    /\ ctx.iteration_no = 1
    /\ ctx.global_step = 451
    /\ session["params"] = 451

\* C5: a checkpoint holds exactly the variables that existed when the
\* CheckpointTask was created: global_step, created before the task, is in
\* every checkpoint; Adam's variables, created by minimize after the task,
\* are in none.
C5_SavedVariables ==
    checkpoint # NoCheckpoint =>
        /\ DOMAIN checkpoint = {"params", "global_step"}
        /\ pc \notin {"global_step", "tasks"} => DOMAIN checkpoint = saverVars

C5_Witness ==
    /\ pc = "adam_step"
    /\ run = 1
    /\ optIter = 10
    /\ "adam" \in variables
    /\ checkpoint # NoCheckpoint
    /\ "adam" \notin DOMAIN checkpoint
    /\ checkpoint["global_step"] = 10

TboardTasks == {"model_tboard", "lml_tboard", "custom_tboard"}

\* C6: opening a writer on a location that has an open writer raises an
\* error and opens nothing, so a location never has two open writers; the
\* three TensorBoard tasks write through the one writer, without error,
\* until it is closed.
C6_WriterSharing ==
    /\ [][(pc \in {"tasks", "monitor"} /\ pc' = "monitor") =>
            (IF writers[EventLocation] > 0
             THEN error' = "location in use" /\ writers' = writers
             ELSE error' = "" /\ writers'[EventLocation] = 1)]_vars
    /\ [](writers[EventLocation] <= 1)
    /\ [](error # "writer closed")
    /\ [](pc = "close_writer" =>
            /\ writers[EventLocation] = 1
            /\ events[EventLocation] = TboardTasks)

C6_Witness ==
    /\ pc = "monitor"
    /\ error = "location in use"
    /\ writers[EventLocation] = 1
    /\ events[EventLocation] = TboardTasks

\* a task that accesses the variables has run in the loop of this stage
AccessedInLoop == \E t \in Range(mon.tasks) : t.reads /\ ran[t.name] # {}

InScipyLoop == pc \in {"scipy_step", "scipy_callback"}

\* C7 as stated: at every step callback before completion the original
\* variables hold their pre-optimisation values, and after minimize
\* returns they hold the optimised values.
C7_AsStated ==
    /\ InScipyLoop => session["params"] = scipyCopy - optIter
    /\ pc = "scipy_exit" => session["params"] = scipyCopy

\* C7: an iteration of ScipyOptimizer changes its own copy and never the
\* original variables, which hold at every step callback before completion
\* their pre-optimisation values, or, once a monitor that was given the
\* optimiser has updated them for a task that accesses them, the copy as
\* of the last such update; after minimize returns they hold the optimised
\* values.
C7_OwnCopy ==
    /\ [][pc = "scipy_step" /\ pc' = "scipy_callback" =>
            (session' = session /\ scipyCopy' # scipyCopy)]_vars
    /\ [](InScipyLoop /\ ~(mon.optimiser = "scipy" /\ AccessedInLoop) =>
            session["params"] = scipyCopy - optIter)
    /\ [](InScipyLoop /\ mon.optimiser = "scipy" /\ AccessedInLoop =>
            session["params"] = seen)
    /\ [](pc = "scipy_exit" => session["params"] = scipyCopy)

C7_Witness ==
    /\ pc = "scipy_callback"
    /\ optIter = 11
    /\ mon.optimiser = "none"
    /\ 10 \in ran["saver"]
    /\ session["params"] = scipyCopy - 11

\* C8: a task that accesses the variables, run in the loop of a
\* ScipyOptimizer stage by a monitor that was given the optimiser, reads
\* (and the checkpoint task saves) the optimiser's current copy.
C8_TasksSeeCurrent ==
    /\ mon.optimiser = "scipy"
    /\ pc = "scipy_step"
    /\ ctx.iteration_no \in ran["saver"]
    => /\ seen = scipyCopy
       /\ checkpoint["params"] = scipyCopy

C8_Witness ==
    /\ mon.optimiser = "scipy"
    /\ pc = "scipy_step"
    /\ optIter = 10
    /\ ctx.iteration_no \in ran["saver"]
    /\ seen = scipyCopy
    /\ scipyCopy >= 10

\* C9: a monitor without global_step takes its iteration count for the
\* optimisation step; a stage whose Monitor is given no context starts the
\* count at zero; a stage given the caller's MonitorContext, which every
\* stage before it was given too, starts at the count the stage before
\* ended with; each callback adds one.
C9_IterationCount ==
    /\ [][pc = "scipy_enter" /\ pc' = "scipy_step" =>
            (/\ mon'.context = "none" => ctx'.iteration_no = 0
             /\ mon'.context = "shared" /\ (stage = 0 \/ mon.context = "shared")
                   => ctx'.iteration_no = ctx.iteration_no)]_vars
    /\ [][pc = "scipy_callback" /\ pc' = "scipy_step" =>
            (ctx'.iteration_no = ctx.iteration_no + 1)]_vars
    /\ [](~mon.global_step => ctx.global_step = ctx.iteration_no)
    /\ [](report.at # "none" => report.opt_step = report.iteration)

C9_Witness ==
    /\ stage = 2
    /\ mon.context = "shared"
    /\ pc = "scipy_step"
    /\ optIter = 3
    /\ ctx.iteration_no = 8
    /\ ctx.global_step = 8

\* C10: before any anchor the value property returns the value the
\* parameter had before the optimisation steps run in the session, however
\* many steps were run.
C10_ValueIsCached ==
    ~anchored =>
        /\ cache[Lengthscales] = 0
        /\ result.op = "value" => result.value = 0

C10_Witness ==
    /\ ~anchored
    /\ sessValue[Lengthscales] >= 2
    /\ result = [op |-> "value", value |-> 0]

\* C11: read_value(session) returns the value the parameter has in the
\* session at that moment, after any number of optimisation steps, and
\* leaves the cached value and the session as they were.
C11_ReadValue ==
    /\ [][result'.op = "read_value" =>
            (/\ result'.value = sessValue[Lengthscales]
             /\ cache' = cache
             /\ sessValue' = sessValue)]_vars
    /\ [](result.op = "read_value" => result.value = sessValue[Lengthscales])

C11_Witness ==
    /\ result.op = "read_value"
    /\ result.value >= 2
    /\ cache[Lengthscales] < result.value

\* C12: immediately after model.anchor(session) the cached value of every
\* parameter of the model equals its value in the session, after any
\* number of optimisation steps.
C12_AnchorUpdatesCache ==
    result.op = "anchor" => \A q \in Parameters : cache[q] = sessValue[q]

C12_Witness ==
    /\ result.op = "anchor"
    /\ \A q \in Parameters : cache[q] = sessValue[q] /\ cache[q] >= 2

\* the latest call on the model of section 2
LastCall == calls[Len(calls)]

\* C13: compute_log_likelihood with x_tensor and y_tensor fed leaves the
\* dataholders X and Y holding the data they held, and a following
\* compute_log_likelihood() without feed_dict returns what it returned
\* before the fed call.
C13_FeedLeavesModel ==
    /\ [][(calls' # calls /\ calls'[Len(calls')].op = "compute_fed") =>
            (X' = X /\ Y' = Y)]_vars
    /\ [](\A i \in 1..(Len(calls) - 2) :
            (/\ calls[i].op = "compute"
             /\ calls[i + 1].op = "compute_fed"
             /\ calls[i + 2].op = "compute")
            => calls[i + 2].value = calls[i].value)

C13_Witness ==
    /\ Len(calls) = 3
    /\ calls[1].op = "compute"
    /\ calls[2] = [op |-> "compute_fed", data |-> "xy_new",
                   value |-> LogLikelihood("xy_new", "xy_new")]
    /\ calls[3] = calls[1]
    /\ X = "xy"
    /\ Y = "xy"

\* C14: after model.X = x_new; model.Y = y_new every later
\* compute_log_likelihood() returns what compute_log_likelihood fed with
\* x_new and y_new returns, until the dataholders are assigned again.
C14_AssignmentIsPermanent ==
    (/\ assigned # ""
     /\ fedValue[assigned] # NoValue
     /\ Len(calls) > 0
     /\ LastCall.op = "compute")
    => LastCall.value = fedValue[assigned]

C14_Witness ==
    /\ assigned = "xy_new"
    /\ fedValue["xy_new"] # NoValue
    /\ Len(calls) = 3
    /\ calls[1] = [op |-> "compute_fed", data |-> "xy_new",
                   value |-> fedValue["xy_new"]]
    /\ calls[2].op = "assign"
    /\ calls[3].op = "compute"
    /\ calls[3].value = fedValue["xy_new"]

\* the number of objects whose tensors the current graph holds
Size == Cardinality(Current.objs)

\* every creation adds the new object's tensors to the current graph and
\* removes none of those it held
CreationAdds ==
    [][created' > created =>
          (/\ Len(graphs') = Len(graphs)
           /\ Current.objs \subseteq Current'.objs
           /\ created' \in Current'.objs
           /\ Cardinality(Current'.objs) > Size)]_vars

\* a graph made by a reset or by entering a block is empty when made, and a
\* graph holds only tensors of objects created since it was made
OnlyCreatedSince ==
    /\ [](stmt \in {"reset", "enter"} => Current.objs = {})
    /\ [](\A i \in 1..Len(graphs) : \A o \in graphs[i].objs :
              o > graphs[i].born)

\* C15 as stated: the current graph's size decreases only when the graph is
\* replaced by a reset or by entering a new tf.Graph.
C15_AsStated ==
    [][Cardinality(Current'.objs) < Size => stmt' \in {"reset", "enter"}]_vars

\* C15: every creation of a GPflow object adds tensors to the current graph
\* and removes none; the current graph's size decreases only when another
\* graph becomes the current one: a fresh one by a reset or by entering a
\* new tf.Graph, which holds only tensors of objects created since, or, at
\* the end of the tf.Graph block, the enclosing graph as it was on entry.
C15_GraphGrows ==
    /\ CreationAdds
    /\ OnlyCreatedSince
    /\ [][Cardinality(Current'.objs) < Size =>
              stmt' \in {"reset", "enter", "leave"}]_vars
    /\ [][Len(graphs') < Len(graphs) =>
              graphs' = SubSeq(graphs, 1, Len(graphs) - 1)]_vars
    /\ [][Len(graphs') > Len(graphs) =>
              SubSeq(graphs', 1, Len(graphs)) = graphs]_vars

\* two objects created in a row, the first one's tensors still in the graph
\* although kernel refers to the second
C15_Witness ==
    /\ stmt = "create"
    /\ kernel >= 2
    /\ {kernel - 1, kernel} \subseteq Current.objs

\* C16: k calls of optimizer.minimize(model) add k sets of optimization
\* tensors to the graph, and neither session.run(optimizer_tensor) nor
\* model.anchor(session) adds any: the graph holds the set built by
\* make_optimize_tensor and one more for every call of minimize.
C16_OptimizationTensors ==
    /\ [](optSets = 1 + minimized)
    /\ [][result'.op = "minimize" => optSets' = optSets + 1]_vars
    /\ [][result'.op \in {"run", "anchor"} => optSets' = optSets]_vars

\* minimize called twice and the optimizer tensor run four times
C16_Witness ==
    /\ minimized = 2
    /\ optSets = 3
    /\ sessValue[Lengthscales] = 8

\* the position of the task named n in the monitor's list
Position(n) == CHOOSE k \in DOMAIN mon.tasks : mon.tasks[k].name = n

\* one run of the monitor's tasks: every task at most once, in the order of
\* the monitor's list, the time passing being the sum of the tasks' times
\* and each task's time going to its own entry
OneAfterAnother ==
    /\ Range(lastRun') \subseteq Names(Range(mon.tasks))
    /\ \A i, j \in DOMAIN lastRun' :
          i < j => Position(lastRun'[i]) < Position(lastRun'[j])
    /\ elapsed' = elapsed + Len(lastRun')
    /\ \A t \in TaskNames :
          timings'[t] = timings[t] + (IF t \in Range(lastRun') THEN 1 ELSE 0)

\* C17: the sleep task, which has neither a running condition nor an exit
\* condition, has run at every iteration of the loop so far and never at
\* the end of optimisation; a callback runs its tasks one after another,
\* each task's time being added to its own entry; the timing summary is
\* printed at the exit of a monitor with print_summary=True, once, with
\* every task's entry, and at no other moment.  After the Adam stage the
\* sleep task's entry is 450 runs and the print task's 45 runs and one
\* more at exit.
C17_SleepAndTimings ==
    /\ []("sleep" \in Names(Range(mon.tasks)) =>
             /\ ran["sleep"] = 1..ctx.iteration_no
             /\ exitRuns["sleep"] = 0)
    /\ [][(pc \in {"adam_callback", "scipy_callback", "adam_exit",
                   "scipy_exit"}) => OneAfterAnother]_vars
    /\ [][(pc \in {"adam_exit", "scipy_exit"} /\ mon.print_summary) =>
             (/\ summaryCount' = summaryCount + 1
              /\ summary' = [t \in Names(Range(mon.tasks)) |-> timings'[t]])
         ]_vars
    /\ [][(pc \notin {"adam_exit", "scipy_exit"} /\ run' = run) =>
             (summary' = summary /\ summaryCount' = summaryCount)]_vars
    /\ [](pc = "close_writer" =>
             /\ summaryCount = 1
             /\ summary["sleep"] = AdamMaxIter
             /\ summary["print"] = (AdamMaxIter \div Period10) + 1)

C17_Witness ==
    /\ pc = "close_writer"
    /\ ran["sleep"] = 1..450
    /\ exitRuns["sleep"] = 0
    /\ summaryCount = 1
    /\ summary["sleep"] = 450
    /\ summary["print"] = 46
    /\ "sleep" \notin Range(lastRun)
    /\ lastRun[1] = "print"

====
